---- MODULE Spec2Model ----
(***************************************************************************)
(* Model of the agricultural data programs: the dashboard                  *)
(* (streamlit_app.py) and the one-shot script (data_analysis.py).          *)
(*                                                                         *)
(* A DataFrame is [none, cols, rows]: cols is the sequence of column       *)
(* names, rows the sequence of rows in positional order.  A row is a       *)
(* record holding one field per column plus idx, the pandas index label    *)
(* (read_csv gives a RangeIndex; selection and sorting keep the labels).   *)
(* A Value cell is a string (a tuple of characters), a number (kept in     *)
(* hundredths) or NaN, the missing marker.                                 *)
(*                                                                         *)
(* The cropland Value column is string typed (object dtype), as read_csv   *)
(* yields it for the comma formatted source file.                          *)
(***************************************************************************)
EXTENDS Integers, Sequences, FiniteSets, TLC

VARIABLES
  files,          \* per source: is the CSV file there and parsable
  content,        \* per source: the table pd.read_csv yields when it is
  cropland_df,    \* the loaded tables held by the caller
  crop_prices_df,
  price_index_df,
  sortTies,       \* how this build's sort_values orders equal keys
  out,            \* outcome of the last direct call of a filter function
  first,          \* the first direct call of a filter function, and whether
                  \* a call with other arguments has been made since
  cache,          \* st.cache_data entry of load_data
  reads,          \* per source: pd.read_csv executions in load_data
  widgets,        \* dashboard widget state (session state)
  ui,             \* what the last dashboard run rendered
  script          \* what the last run of the one-shot script produced

vars == <<files, content, cropland_df, crop_prices_df, price_index_df,
          sortTies, out, first, cache, reads, widgets, ui, script>>

----------------------------------------------------------------------------
(* Bounds *)

MaxRows == 3
MaxRepeatRows == 1
MaxAppRows == 2
MaxReads == 2

----------------------------------------------------------------------------
(* Cells *)

Str(s) == [t |-> "str", s |-> s, n |-> 0]
Num(n) == [t |-> "num", s |-> <<>>, n |-> n]
NaN == [t |-> "nan", s |-> <<>>, n |-> 0]

DigitVal == [c \in {"0", "1", "2", "3", "4", "5", "6", "7", "8", "9"} |->
               CASE c = "0" -> 0 [] c = "1" -> 1 [] c = "2" -> 2
                 [] c = "3" -> 3 [] c = "4" -> 4 [] c = "5" -> 5
                 [] c = "6" -> 6 [] c = "7" -> 7 [] c = "8" -> 8
                 [] c = "9" -> 9]

IsDigits(s) == \A i \in 1..Len(s) : s[i] \in DOMAIN DigitVal

RECURSIVE DigitsVal(_)
DigitsVal(s) ==
  IF s = <<>> THEN 0
  ELSE 10 * DigitsVal(SubSeq(s, 1, Len(s) - 1)) + DigitVal[s[Len(s)]]

DotPos(s) ==
  IF \E i \in 1..Len(s) : s[i] = "."
  THEN CHOOSE i \in 1..Len(s) : s[i] = "." /\ \A j \in 1..(i - 1) : s[j] # "."
  ELSE 0

IntPart(s) == IF DotPos(s) = 0 THEN s ELSE SubSeq(s, 1, DotPos(s) - 1)
FracPart(s) == IF DotPos(s) = 0 THEN <<>> ELSE SubSeq(s, DotPos(s) + 1, Len(s))

\* Does the text denote a decimal number: digits with at most one point and
\* at least one digit.
IsFloatText(s) ==
  /\ IsDigits(IntPart(s))
  /\ IsDigits(FracPart(s))
  /\ Len(IntPart(s)) + Len(FracPart(s)) >= 1

\* The number a decimal text denotes, in hundredths.
FloatOfText(s) ==
  LET f == FracPart(s)
  IN  DigitsVal(IntPart(s)) * 100
        + (IF Len(f) >= 1 THEN 10 * DigitVal[f[1]] ELSE 0)
        + (IF Len(f) >= 2 THEN DigitVal[f[2]] ELSE 0)

\* Series.str.replace(',', ''): strings lose their commas, a missing cell
\* stays missing.
str_replace_comma(c) ==
  IF c.t = "str" THEN Str(SelectSeq(c.s, LAMBDA ch : ch # ",")) ELSE NaN

\* Series.astype(float) raises ValueError when some string is not a number.
astype_float_raises(cells) ==
  \E i \in 1..Len(cells) : cells[i].t = "str" /\ ~IsFloatText(cells[i].s)

astype_float(c) ==
  IF c.t = "str" THEN Num(FloatOfText(c.s))
  ELSE IF c.t = "num" THEN c ELSE NaN

\* pd.to_numeric(errors='coerce'): what does not parse becomes NaN.
to_numeric_coerce(c) ==
  IF c.t = "num" THEN c
  ELSE IF c.t = "str" /\ IsFloatText(c.s) THEN Num(FloatOfText(c.s))
  ELSE NaN

----------------------------------------------------------------------------
(* DataFrames *)

None == [none |-> TRUE, cols |-> <<>>, rows |-> <<>>]
Frame(cols, rows) == [none |-> FALSE, cols |-> cols, rows |-> rows]

Empty(df) == df.rows = <<>>

RECURSIVE Keep(_, _)
Keep(rows, mask) ==
  IF rows = <<>> THEN <<>>
  ELSE LET k == Keep(SubSeq(rows, 1, Len(rows) - 1), mask)
       IN  IF mask[Len(rows)] THEN Append(k, rows[Len(rows)]) ELSE k

\* df[mask]: the rows the boolean mask keeps, in positional order, labels
\* kept.
Select(df, mask) == Frame(df.cols, Keep(df.rows, mask))

\* df['Value_Numeric'] = values
WithColumn(r, name, v) ==
  [f \in (DOMAIN r) \cup {name} |-> IF f = name THEN v ELSE r[f]]

AddColumn(df, name, values) ==
  Frame(IF \E i \in 1..Len(df.cols) : df.cols[i] = name
          THEN df.cols ELSE Append(df.cols, name),
        [i \in 1..Len(df.rows) |-> WithColumn(df.rows[i], name, values[i])])

\* Where a row goes among rows already sorted by Year: behind the rows with a
\* smaller Year, and behind ("stable") or before ("reverse") those with an
\* equal one.
InsertPos(sorted, r, ties) ==
  Cardinality({i \in 1..Len(sorted) :
                 \/ sorted[i].Year < r.Year
                 \/ sorted[i].Year = r.Year /\ ties = "stable"})

RECURSIVE SortRows(_, _)
SortRows(rows, ties) ==
  IF rows = <<>> THEN <<>>
  ELSE LET s == SortRows(SubSeq(rows, 1, Len(rows) - 1), ties)
           r == rows[Len(rows)]
           p == InsertPos(s, r, ties)
       IN  SubSeq(s, 1, p) \o <<r>> \o SubSeq(s, p + 1, Len(s))

sort_values_none(df, ties) == df

\* df.sort_values('Year')
sort_values(df, ties) == Frame(df.cols, SortRows(df.rows, ties))

----------------------------------------------------------------------------
(* The filter functions.  Each yields what the call leaves in the caller's  *)
(* table (df), how it ended (status, exc), the value it returned (ret) and  *)
(* the image files it wrote (saved).                                        *)

Returned(df, ret, saved) ==
  [df |-> df, status |-> "returned", exc |-> "", ret |-> ret, saved |-> saved]
Raised(df, exc) ==
  [df |-> df, status |-> "raised", exc |-> exc, ret |-> None, saved |-> {}]

InYears_swapped(df, year_range) ==
  [i \in 1..Len(df.rows) |->
     \/ df.rows[i].Year >= year_range[1] /\ df.rows[i].Year <= year_range[2]
     \/ df.rows[i].Year >= year_range[2] /\ df.rows[i].Year <= year_range[1]]

\* (df['Year'] >= lo) & (df['Year'] <= hi)
InYears(df, year_range) ==
  [i \in 1..Len(df.rows) |->
     df.rows[i].Year >= year_range[1] /\ df.rows[i].Year <= year_range[2]]

\* df[column].isin(values)
isin(df, name, values) == [i \in 1..Len(df.rows) |-> df.rows[i][name] \in values]

SelectYears(df, year_range) == Select(df, InYears(df, year_range))

CroplandFilter_nofilter(df, selected, year_range) ==
  SelectYears(IF selected = {} THEN df ELSE Select(df, isin(df, "State", selected)),
              year_range)

\* The cropland selection and coercion shared by both programs.
CroplandFilter(df, selected, year_range) ==
  SelectYears(Select(df, isin(df, "State", selected)), year_range)

\* filtered_df['Value'].str.replace(',', '')
Stripped(filtered_df) ==
  [i \in 1..Len(filtered_df.rows) |-> str_replace_comma(filtered_df.rows[i].Value)]

CroplandCoerce(df, filtered_df, saved) ==
  IF astype_float_raises(Stripped(filtered_df))
  THEN Raised(df, "ValueError")
  ELSE Returned(df,
                AddColumn(filtered_df, "Value_Numeric",
                          [i \in 1..Len(filtered_df.rows) |->
                             astype_float(Stripped(filtered_df)[i])]),
                saved)

process_cropland_data_inplace(df, selected_states, year_range) ==
  IF df.none THEN Returned(df, None, {})
  ELSE LET r == CroplandCoerce(df, CroplandFilter(df, selected_states, year_range), {})
       IN  IF r.status = "returned" THEN [r EXCEPT !.df = r.ret] ELSE r

process_cropland_data(df, selected_states, year_range) ==
  IF df.none THEN Returned(df, None, {})
  ELSE CroplandCoerce(df, CroplandFilter(df, selected_states, year_range), {})

CropFilter(df, crops, year_range) ==
  SelectYears(Select(df, isin(df, "Commodity", crops)), year_range)

CropCoerce(filtered_df) ==
  AddColumn(filtered_df, "Value_Numeric",
            [i \in 1..Len(filtered_df.rows) |->
               to_numeric_coerce(filtered_df.rows[i].Value)])

process_crop_prices_data(df, selected_crops, year_range) ==
  IF df.none THEN Returned(df, None, {})
  ELSE Returned(df, CropCoerce(CropFilter(df, selected_crops, year_range)), {})

IndexFilter(df, year_range) == SelectYears(df, year_range)

process_price_index_data(df, year_range, ties) ==
  IF df.none THEN Returned(df, None, {})
  ELSE Returned(df, sort_values(CropCoerce(IndexFilter(df, year_range)), ties), {})

\* data_analysis.py: the same pipelines with fixed selections, followed by
\* the chart and savefig.
states == {"KENTUCKY", "INDIANA", "OHIO", "TENNESSEE"}
commodities == {"CORN", "SOYBEANS", "WHEAT"}
Plot1Years == <<1997, 2025>>
Plot2Years == <<1975, 2025>>
Plot3Years == <<1990, 2025>>

create_plot1_land_prices(df) ==
  CroplandCoerce(df, CroplandFilter(df, states, Plot1Years), {"plot1_land_prices.png"})

create_plot2_crop_prices(df) ==
  Returned(df, CropCoerce(CropFilter(df, commodities, Plot2Years)),
           {"plot2_crop_prices.png"})

create_plot3_price_index(df, ties) ==
  Returned(df, sort_values(CropCoerce(IndexFilter(df, Plot3Years)), ties),
           {"plot3_price_index.png"})

----------------------------------------------------------------------------
(* Input tables *)

Sources == {"land", "crop", "index"}

LandCols == <<"State", "Year", "Value">>
CropCols == <<"Commodity", "Year", "Value">>
IndexCols == <<"Year", "Value">>

LandRow(s, y, v) == [State |-> s, Year |-> y, Value |-> Str(v)]
CropRow(c, y, v) == [Commodity |-> c, Year |-> y, Value |-> v]
IndexRow(y, v) == [Year |-> y, Value |-> v]

Suppressed == <<"(", "D", ")">>

LandRows ==
  { LandRow("KENTUCKY", 1996, <<"5", ",", "0", "0", "0">>),
    LandRow("KENTUCKY", 1998, <<"5", ",", "5", "0", "0">>),
    LandRow("OHIO", 1998, <<"6", ",", "0", "0", "0">>),
    LandRow("OHIO", 2025, Suppressed),
    LandRow("TEXAS", 1998, <<"6", ",", "0", "0", "0">>) }

CropRows ==
  { CropRow("CORN", 1975, Num(250)),
    CropRow("WHEAT", 2025, Num(400)),
    CropRow("CORN", 2025, Str(Suppressed)),
    CropRow("WHEAT", 2000, Str(<<"3", ".", "5">>)),
    CropRow("HAY", 2000, NaN) }

IndexRows ==
  { IndexRow(1990, Num(9000)),
    IndexRow(2024, Num(12000)),
    IndexRow(2000, Str(Suppressed)),
    IndexRow(2000, NaN),
    IndexRow(1985, Str(<<"8", "5", ".", "5">>)) }

BoundedSeq(S, n) == UNION {[1..k -> S] : k \in 0..n}

\* read_csv gives a column one type: numbers (with NaN for empty cells) or
\* strings (with NaN for empty cells).
OneTyped(rows) ==
  ~(\E i, j \in 1..Len(rows) : rows[i].Value.t = "num" /\ rows[j].Value.t = "str")

\* pd.read_csv: the rows in file order under a RangeIndex.
MkTable(cols, rows) ==
  Frame(cols, [i \in 1..Len(rows) |-> WithColumn(rows[i], "idx", i - 1)])

Tables(cols, kinds, n) ==
  {MkTable(cols, rows) : rows \in {q \in BoundedSeq(kinds, n) : OneTyped(q)}}

DefaultLand == MkTable(LandCols, <<LandRow("KENTUCKY", 1996, <<"5", ",", "0", "0", "0">>),
                                   LandRow("KENTUCKY", 2025, <<"5", ",", "5", "0", "0">>)>>)
DefaultCrop == MkTable(CropCols, <<CropRow("CORN", 1975, Num(250)),
                                   CropRow("WHEAT", 2025, Num(400))>>)
DefaultIndex == MkTable(IndexCols, <<IndexRow(1990, Num(9000)),
                                     IndexRow(2024, Num(12000))>>)

\* One table varies while the other two are the default ones.
Contents(n) ==
  {[land |-> t, crop |-> DefaultCrop, index |-> DefaultIndex] :
     t \in Tables(LandCols, LandRows, n)}
  \cup {[land |-> DefaultLand, crop |-> t, index |-> DefaultIndex] :
     t \in Tables(CropCols, CropRows, n)}
  \cup {[land |-> DefaultLand, crop |-> DefaultCrop, index |-> t] :
     t \in Tables(IndexCols, IndexRows, n)}

StateSets == {{}, {"KENTUCKY"}, states}
CropSets == {{}, {"CORN"}, commodities}
LandRanges == {<<1997, 2025>>, <<1998, 1998>>, <<1990, 1995>>, <<2025, 1997>>}
CropRanges == {<<1975, 2025>>, <<2000, 2000>>, <<2030, 2040>>, <<2025, 1975>>}
IndexRanges == {<<1990, 2024>>, <<2000, 2000>>, <<1970, 1980>>, <<2024, 1990>>}

----------------------------------------------------------------------------
(* Direct calls of the filter functions *)

NoCall == [op |-> "none", sel |-> {}, yr |-> <<0, 0>>, status |-> "none",
           exc |-> "", ret |-> None, saved |-> {}]

SameCall(c, d) == c.op = d.op /\ c.sel = d.sel /\ c.yr = d.yr

NotFirst == [call |-> NoCall, between |-> FALSE]
Untracked == [call |-> [NoCall EXCEPT !.op = "untracked"], between |-> FALSE]

Call(op, sel, yr, r) ==
  [op |-> op, sel |-> sel, yr |-> yr, status |-> r.status, exc |-> r.exc,
   ret |-> r.ret, saved |-> r.saved]

Record(c) ==
  /\ out' = c
  /\ first' = IF first = NotFirst THEN [call |-> c, between |-> FALSE]
               ELSE IF first = Untracked \/ SameCall(c, first.call) THEN first
               ELSE [first EXCEPT !.between = TRUE]
  /\ UNCHANGED <<files, content, sortTies, cache, reads, widgets, ui, script>>

CallProcessCropland ==
  \E sel \in StateSets, yr \in LandRanges :
    LET r == process_cropland_data(cropland_df, sel, yr)
    IN  /\ cropland_df' = r.df
        /\ UNCHANGED <<crop_prices_df, price_index_df>>
        /\ Record(Call("process_cropland_data", sel, yr, r))

CallProcessCropPrices ==
  \E sel \in CropSets, yr \in CropRanges :
    LET r == process_crop_prices_data(crop_prices_df, sel, yr)
    IN  /\ crop_prices_df' = r.df
        /\ UNCHANGED <<cropland_df, price_index_df>>
        /\ Record(Call("process_crop_prices_data", sel, yr, r))

CallProcessPriceIndex ==
  \E yr \in IndexRanges :
    LET r == process_price_index_data(price_index_df, yr, sortTies)
    IN  /\ price_index_df' = r.df
        /\ UNCHANGED <<cropland_df, crop_prices_df>>
        /\ Record(Call("process_price_index_data", {}, yr, r))

CallCreatePlot1 ==
  LET r == create_plot1_land_prices(cropland_df)
  IN  /\ cropland_df' = r.df
      /\ UNCHANGED <<crop_prices_df, price_index_df>>
      /\ Record(Call("create_plot1_land_prices", states, Plot1Years, r))

CallCreatePlot2 ==
  LET r == create_plot2_crop_prices(crop_prices_df)
  IN  /\ crop_prices_df' = r.df
      /\ UNCHANGED <<cropland_df, price_index_df>>
      /\ Record(Call("create_plot2_crop_prices", commodities, Plot2Years, r))

CallCreatePlot3 ==
  LET r == create_plot3_price_index(price_index_df, sortTies)
  IN  /\ price_index_df' = r.df
      /\ UNCHANGED <<cropland_df, crop_prices_df>>
      /\ Record(Call("create_plot3_price_index", {}, Plot3Years, r))

----------------------------------------------------------------------------
(* Loading *)

ReadOrder == <<"land", "crop", "index">>

\* The reads up to the first one that fails: pd.read_csv is called on the
\* three files in turn and the first exception ends the function.
FirstBad(f) ==
  IF \E i \in 1..3 : f[ReadOrder[i]] # "ok"
  THEN CHOOSE i \in 1..3 :
         f[ReadOrder[i]] # "ok" /\ \A j \in 1..(i - 1) : f[ReadOrder[j]] = "ok"
  ELSE 0

Attempted(f) ==
  {ReadOrder[i] : i \in 1..(IF FirstBad(f) = 0 THEN 3 ELSE FirstBad(f))}

\* pd.read_csv raises FileNotFoundError for a missing file and ParserError
\* for one it cannot parse.
ReadError(f) ==
  IF f[ReadOrder[FirstBad(f)]] = "missing" THEN "FileNotFoundError" ELSE "ParserError"

Loaded(status, exc, land, crop, index, msgs) ==
  [status |-> status, exc |-> exc, land |-> land, crop |-> crop,
   index |-> index, messages |-> msgs]

\* data_analysis.py
load_and_process_data(f, c) ==
  IF FirstBad(f) = 0
  THEN Loaded("returned", "", c.land, c.crop, c.index, {})
  ELSE Loaded("raised", ReadError(f), None, None, None, {})

\* streamlit_app.py, the body of load_data
load_data_partial(f, c) ==
  IF \E s \in Sources : f[s] = "malformed"
  THEN Loaded("raised", "ParserError", None, None, None, {})
  ELSE Loaded("returned", "",
              IF f["land"] = "ok" THEN c.land ELSE None,
              IF f["crop"] = "ok" THEN c.crop ELSE None,
              IF f["index"] = "ok" THEN c.index ELSE None,
              IF FirstBad(f) = 0 THEN {} ELSE {"Error loading data"})

load_data_body(f, c) ==
  IF FirstBad(f) = 0
  THEN Loaded("returned", "", c.land, c.crop, c.index, {})
  ELSE IF ReadError(f) = "FileNotFoundError"
  THEN Loaded("returned", "", None, None, None, {"Error loading data"})
  ELSE Loaded("raised", "ParserError", None, None, None, {})

NoEntry == [present |-> FALSE, value |-> Loaded("none", "", None, None, None, {})]
Entry(v) == [present |-> TRUE, value |-> v]

\* @st.cache_data: a stored return value is handed out again (with the
\* elements the function rendered) without running the body; a call that
\* raises stores nothing.
Cached(hit, value, entry, read) ==
  [hit |-> hit, value |-> value, entry |-> entry, read |-> read]

load_data_uncached(entry, f, c) ==
  LET v == load_data_body(f, c)
  IN  Cached(FALSE, v, IF v.status = "returned" THEN Entry(v) ELSE entry, Attempted(f))

load_data(entry, f, c) ==
  IF entry.present
  THEN Cached(TRUE, entry.value, entry, {})
  ELSE LET v == load_data_body(f, c)
       IN  Cached(FALSE, v, IF v.status = "returned" THEN Entry(v) ELSE entry,
                  Attempted(f))

----------------------------------------------------------------------------
(* The dashboard *)

available_states == {"KENTUCKY", "INDIANA", "OHIO", "TENNESSEE"}
available_crops == {"CORN", "SOYBEANS", "WHEAT"}

DefaultWidgets ==
  [selected_states |-> available_states, plot1_years |-> <<1997, 2025>>,
   selected_crops |-> available_crops, plot2_years |-> <<1975, 2025>>,
   plot3_years |-> <<1990, 2024>>, combined |-> FALSE]

Years(df) == {df.rows[i].Year : i \in 1..Len(df.rows)}
MinOf(S) == CHOOSE x \in S : \A y \in S : x <= y
MaxOf(S) == CHOOSE x \in S : \A y \in S : x >= y

\* st.sidebar.slider(min_value=years.min(), max_value=years.max(), value=v):
\* "" when the widget is built, else the exception.
SliderError(df, v) ==
  IF df.none THEN "TypeError"
  ELSE IF Empty(df) THEN "ValueError"
  ELSE IF v[1] < MinOf(Years(df)) \/ v[2] > MaxOf(Years(df))
  THEN "StreamlitAPIException"
  ELSE ""

SidebarError(ld) ==
  IF SliderError(ld.land, DefaultWidgets.plot1_years) # ""
  THEN SliderError(ld.land, DefaultWidgets.plot1_years)
  ELSE IF SliderError(ld.crop, DefaultWidgets.plot2_years) # ""
  THEN SliderError(ld.crop, DefaultWidgets.plot2_years)
  ELSE SliderError(ld.index, DefaultWidgets.plot3_years)

create_plot_always(data, name) == IF data.none THEN "None" ELSE name

create_plot(data, name) == IF data.none \/ Empty(data) THEN "None" ELSE name

create_plot1(data) == create_plot(data, "plot1")
create_plot2(data) == create_plot(data, "plot2")
create_plot3(data) == create_plot(data, "plot3")

Ui(status, exc, hit, sidebar, msgs, charts, traces, metrics, set, d1, d2, d3) ==
  [status |-> status, exc |-> exc, cacheHit |-> hit, sidebar |-> sidebar,
   messages |-> msgs, charts |-> charts, traces |-> traces,
   metrics |-> metrics, assigned |-> set,
   plot1_data |-> d1, plot2_data |-> d2, plot3_data |-> d3]

NoUi == Ui("none", "", FALSE, FALSE, {}, {}, {}, {}, {}, None, None, None)

Usable(sel, data) == sel # {} /\ ~data.none /\ ~Empty(data)

\* main() from the column layout on, the three tables being loaded and the
\* sidebar built.
Render(w, ld, hit) ==
  LET p1 == process_cropland_data(ld.land, w.selected_states, w.plot1_years)
      p2 == process_crop_prices_data(ld.crop, w.selected_crops, w.plot2_years)
      p3 == process_price_index_data(ld.index, w.plot3_years, sortTies)
      d1 == IF w.selected_states # {} THEN p1.ret ELSE None
      d2 == IF w.selected_crops # {} THEN p2.ret ELSE None
      d3 == p3.ret
      fig1 == create_plot1(d1)
      fig2 == create_plot2(d2)
      fig3 == create_plot3(d3)
      msgs == ld.messages
                \cup (IF w.selected_states = {} THEN {"select state"}
                      ELSE IF fig1 = "None" THEN {"no data 1"} ELSE {})
                \cup (IF w.selected_crops = {} THEN {"select crop"}
                      ELSE IF fig2 = "None" THEN {"no data 2"} ELSE {})
                \cup (IF fig3 = "None" THEN {"no data 3"} ELSE {})
      charts == ((IF w.selected_states # {} THEN {fig1} ELSE {})
                   \cup (IF w.selected_crops # {} THEN {fig2} ELSE {})
                   \cup {fig3}) \ {"None"}
      cropTraces == IF Usable(w.selected_crops, d2)
                    THEN {c \in w.selected_crops :
                            \E i \in 1..Len(d2.rows) : d2.rows[i].Commodity = c}
                    ELSE {}
      stateTraces == IF Usable(w.selected_states, d1)
                     THEN {c \in w.selected_states :
                             \E i \in 1..Len(d1.rows) : d1.rows[i].State = c}
                     ELSE {}
      indexTrace == IF ~d3.none /\ ~Empty(d3) THEN {"index"} ELSE {}
      combined == IF w.combined
                  THEN {"combined"}
                         \cup (IF Usable(w.selected_states, d1) THEN {"land"} ELSE {})
                  ELSE {}
      traces == IF w.combined THEN cropTraces \cup stateTraces \cup indexTrace ELSE {}
      metrics == (IF Usable(w.selected_states, d1) THEN {"plot1"} ELSE {})
                   \cup (IF Usable(w.selected_crops, d2) THEN {"plot2"} ELSE {})
                   \cup (IF ~d3.none /\ ~Empty(d3) THEN {"plot3"} ELSE {})
      assigned == (IF w.selected_states # {} THEN {"plot1"} ELSE {})
                    \cup (IF w.selected_crops # {} THEN {"plot2"} ELSE {})
                    \cup {"plot3"}
  IN  IF w.selected_states # {} /\ p1.status = "raised"
      THEN Ui("raised", p1.exc, hit, TRUE, ld.messages, {}, {}, {}, {},
              None, None, None)
      ELSE Ui("returned", "", hit, TRUE, msgs, charts \cup combined, traces,
              metrics, assigned, d1, d2, d3)

\* streamlit_app.py main(), given what load_data handed out.
main(w, ld, hit) ==
  IF ld.status = "raised"
  THEN Ui("raised", ld.exc, hit, FALSE, {}, {}, {}, {}, {}, None, None, None)
  ELSE IF ld.land.none
  THEN Ui("returned", "", hit, FALSE, ld.messages \cup {"Unable to load data files"},
          {}, {}, {}, {}, None, None, None)
  ELSE IF SidebarError(ld) # ""
  THEN Ui("raised", SidebarError(ld), hit, FALSE, ld.messages, {}, {}, {}, {},
          None, None, None)
  ELSE Render(w, ld, hit)

StateChoices == {{}, {"KENTUCKY"}, {"INDIANA"}, available_states}
CropChoices == {{}, {"CORN"}, available_crops}
Plot1Choices == {<<1997, 2025>>, <<1998, 1998>>}
Plot2Choices == {<<1975, 2025>>, <<2000, 2000>>}
Plot3Choices == {<<1990, 2024>>, <<2000, 2000>>}

\* What a slider lets the user pick: an ordered pair inside the table's years.
InSlider(df, v) ==
  /\ ~df.none /\ ~Empty(df)
  /\ MinOf(Years(df)) <= v[1] /\ v[1] <= v[2] /\ v[2] <= MaxOf(Years(df))

\* The widget states one user interaction leads to; the sidebar exists once a
\* run has built it.
UserChanges(w) ==
  IF ~ui.sidebar THEN {w}
  ELSE {w}
    \cup {[w EXCEPT !.selected_states = x] : x \in StateChoices}
    \cup {[w EXCEPT !.selected_crops = x] : x \in CropChoices}
    \cup {[w EXCEPT !.plot1_years = x] :
            x \in {y \in Plot1Choices : InSlider(cache.value.land, y)}}
    \cup {[w EXCEPT !.plot2_years = x] :
            x \in {y \in Plot2Choices : InSlider(cache.value.crop, y)}}
    \cup {[w EXCEPT !.plot3_years = x] :
            x \in {y \in Plot3Choices : InSlider(cache.value.index, y)}}
    \cup {[w EXCEPT !.combined = x] : x \in BOOLEAN}

\* One run of the dashboard script: the first one, or the rerun a user
\* interaction triggers.
DashboardRun ==
  \E w \in UserChanges(widgets) :
    LET c == load_data(cache, files, content)
    IN  /\ cache.present \/ \A s \in Sources : reads[s] < MaxReads
        /\ widgets' = w
        /\ cache' = c.entry
        /\ reads' = [s \in Sources |-> IF s \in c.read THEN reads[s] + 1 ELSE reads[s]]
        /\ ui' = main(w, c.value, c.hit)
        /\ cropland_df' = c.value.land
        /\ crop_prices_df' = c.value.crop
        /\ price_index_df' = c.value.index
        /\ UNCHANGED <<files, content, sortTies, out, first, script>>

----------------------------------------------------------------------------
(* The one-shot script *)

Script(status, exc, saved, d1, d2, d3) ==
  [status |-> status, exc |-> exc, saved |-> saved,
   land_data |-> d1, crop_data |-> d2, index_data |-> d3]

NoScript == Script("none", "", {}, None, None, None)

\* data_analysis.py main()
script_main(f, c, ties) ==
  LET ld == load_and_process_data(f, c)
      p1 == create_plot1_land_prices(ld.land)
      p2 == create_plot2_crop_prices(ld.crop)
      p3 == create_plot3_price_index(ld.index, ties)
  IN  IF ld.status = "raised" THEN Script("raised", ld.exc, {}, None, None, None)
      ELSE IF p1.status = "raised" THEN Script("raised", p1.exc, {}, None, None, None)
      ELSE Script("returned", "", p1.saved \cup p2.saved \cup p3.saved,
                  p1.ret, p2.ret, p3.ret)

ScriptRun ==
  /\ script' = script_main(files, content, sortTies)
  /\ UNCHANGED <<files, content, cropland_df, crop_prices_df, price_index_df,
                 sortTies, out, first, cache, reads, widgets, ui>>

InitLoaded(c, tracking) ==
  /\ files = [s \in Sources |-> "ok"]
  /\ content = c
  /\ cropland_df = c.land
  /\ crop_prices_df = c.crop
  /\ price_index_df = c.index
  /\ sortTies \in {"stable", "reverse"}
  /\ out = NoCall
  /\ first = IF tracking THEN NotFirst ELSE Untracked
  /\ cache = NoEntry
  /\ reads = [s \in Sources |-> 0]
  /\ widgets = DefaultWidgets
  /\ ui = NoUi
  /\ script = NoScript

InitFilter == \E c \in Contents(MaxRows) : InitLoaded(c, FALSE)

NextFilter ==
  \/ CallProcessCropland
  \/ CallProcessCropPrices
  \/ CallProcessPriceIndex
  \/ CallCreatePlot1
  \/ CallCreatePlot2
  \/ CallCreatePlot3

SpecFilter == InitFilter /\ [][NextFilter]_vars

InitRepeat == \E c \in Contents(MaxRepeatRows) : InitLoaded(c, TRUE)

SpecRepeat == InitRepeat /\ [][NextFilter]_vars

\* The tables vary when all three files load; with a file unavailable no
\* table reaches the filters.
InitApp ==
  /\ files \in [Sources -> {"ok", "missing", "malformed"}]
  /\ content \in IF \A s \in Sources : files[s] = "ok"
                 THEN Contents(MaxAppRows)
                 ELSE {[land |-> DefaultLand, crop |-> DefaultCrop,
                        index |-> DefaultIndex]}
  /\ cropland_df = None
  /\ crop_prices_df = None
  /\ price_index_df = None
  /\ sortTies \in {"stable", "reverse"}
  /\ out = NoCall
  /\ first = Untracked
  /\ cache = NoEntry
  /\ reads = [s \in Sources |-> 0]
  /\ widgets = DefaultWidgets
  /\ ui = NoUi
  /\ script = NoScript

NextApp ==
  \/ DashboardRun
  \/ ScriptRun

SpecApp == InitApp /\ [][NextApp]_vars

----------------------------------------------------------------------------
(* Properties of the filter functions *)

LandOps == {"process_cropland_data", "create_plot1_land_prices"}
CropOps == {"process_crop_prices_data", "create_plot2_crop_prices"}
IndexOps == {"process_price_index_data", "create_plot3_price_index"}
ProcessOps == {"process_cropland_data", "process_crop_prices_data",
               "process_price_index_data"}

\* The table a call was given, as it was loaded.
Src(c) ==
  IF c.op \in LandOps THEN content.land
  ELSE IF c.op \in CropOps THEN content.crop ELSE content.index

RowSet(df) == {df.rows[i] : i \in 1..Len(df.rows)}

\* The rows the call is to keep.
Wanted(c) ==
  {r \in RowSet(Src(c)) :
     /\ c.op \in LandOps => r.State \in c.sel
     /\ c.op \in CropOps => r.Commodity \in c.sel
     /\ c.yr[1] <= r.Year /\ r.Year <= c.yr[2]}

Original(r) == [f \in (DOMAIN r) \ {"Value_Numeric"} |-> r[f]]

ExactRows(c) ==
  /\ c.status = "returned"
  /\ ~c.ret.none
  /\ {Original(r) : r \in RowSet(c.ret)} = Wanted(c)
  /\ Len(c.ret.rows) = Cardinality(Wanted(c))

Kentucky1998 ==
  [idx |-> 1, State |-> "KENTUCKY", Year |-> 1998,
   Value |-> Str(<<"5", ",", "5", "0", "0">>), Value_Numeric |-> Num(550000)]

Scenario ==
  /\ content.land = MkTable(LandCols,
       <<LandRow("KENTUCKY", 1996, <<"5", ",", "0", "0", "0">>),
         LandRow("KENTUCKY", 1998, <<"5", ",", "5", "0", "0">>),
         LandRow("OHIO", 1998, <<"6", ",", "0", "0", "0">>)>>)
  /\ out.op = "process_cropland_data"
  /\ out.sel = {"KENTUCKY"}
  /\ out.yr = <<1997, 2025>>

\* C1: after every call of a filter function with min_year <= max_year the
\* call has returned a table holding exactly the input rows whose category
\* is allowed (all rows for the price index) and whose Year is in the range,
\* also when a selected Value is not a number; the KENTUCKY scenario gives
\* exactly (KENTUCKY, 1998, 5500.0).
C1_ExactSelection ==
  (out.op # "none" /\ out.yr[1] <= out.yr[2]) =>
    /\ ExactRows(out)
    /\ Scenario => out.ret.rows = <<Kentucky1998>>

\* Does the cell denote a number, commas dropped for land values.
Parses(c, cell) ==
  /\ cell.t # "nan"
  /\ cell.t = "str" =>
       IsFloatText(IF c.op \in LandOps
                   THEN SelectSeq(cell.s, LAMBDA ch : ch # ",") ELSE cell.s)

\* C2: numeric coercion never raises: every call of a filter function
\* returns a table, and a row of it has the missing marker in Value_Numeric
\* exactly when its Value does not parse as a number.
C2_CoercionNeverRaises ==
  out.op # "none" =>
    /\ out.status = "returned"
    /\ \A r \in RowSet(out.ret) : (r.Value_Numeric = NaN) <=> ~Parses(out, r.Value)

Reversed(c) == c.op \in ProcessOps /\ c.yr[1] > c.yr[2]

\* C3 as stated: a call with min_year > max_year ends in an error.
C3_ReversedRangeFails == Reversed(out) => out.status = "raised"

\* C3 as amended: a call with min_year > max_year does not fail; it returns
\* the empty table (the columns and Value_Numeric, no rows), not the rows of
\* the swapped range.
C3_ReversedRangeEmpty ==
  Reversed(out) =>
    /\ out.status = "returned"
    /\ ~out.ret.none
    /\ out.ret.rows = <<>>
    /\ out.ret.cols = Append(Src(out).cols, "Value_Numeric")

C3_Witness ==
  /\ Reversed(out)
  /\ out.op = "process_cropland_data"
  /\ \E r \in RowSet(content.land) :
       r.State \in out.sel /\ out.yr[2] <= r.Year /\ r.Year <= out.yr[1]

\* C5: a land-value or commodity call with an empty set of allowed
\* categories returns the empty table, not an error, whatever the year
\* range; a price-index call, which has no category filter, returns every
\* row inside the year range.
C5_EmptyCategories ==
  /\ (out.op \in {"process_cropland_data", "process_crop_prices_data"}
        /\ out.sel = {}) =>
       /\ out.status = "returned"
       /\ ~out.ret.none
       /\ out.ret.rows = <<>>
  /\ out.op = "process_price_index_data" =>
       /\ out.status = "returned"
       /\ {r.idx : r \in RowSet(out.ret)}
            = {r.idx : r \in {q \in RowSet(content.index) :
                                out.yr[1] <= q.Year /\ q.Year <= out.yr[2]}}

C5_Witness ==
  /\ out.op = "process_cropland_data"
  /\ out.sel = {}
  /\ \E r \in RowSet(content.land) : out.yr[1] <= r.Year /\ r.Year <= out.yr[2]

C7_SourceUntouched ==
  /\ cropland_df = content.land
  /\ crop_prices_df = content.crop
  /\ price_index_df = content.index
  /\ out.status = "returned" =>
       /\ out.ret.cols = Append(Src(out).cols, "Value_Numeric")
       /\ \A r \in RowSet(out.ret) :
            DOMAIN r = {Src(out).cols[i] : i \in 1..Len(Src(out).cols)}
                         \cup {"idx", "Value_Numeric"}

C7_Witness ==
  /\ out.op = "process_cropland_data"
  /\ out.status = "returned"
  /\ Len(out.ret.rows) >= 1
  /\ Len(out.ret.rows) < Len(content.land.rows)

\* C9: a call with the table, the allowed categories and the year range of
\* an earlier call ends as that call did and returns an identical table,
\* whatever calls were made in between.
C9_SameCallSameResult ==
  (first.call.op # "none" /\ SameCall(out, first.call)) => out = first.call

C9_Witness ==
  /\ first.between
  /\ SameCall(out, first.call)
  /\ out.status = "returned"
  /\ Len(out.ret.rows) >= 1

----------------------------------------------------------------------------
(* Properties of the two programs *)

Unavailable == {s \in Sources : files[s] # "ok"}

PlotOf == [land |-> "plot1", crop |-> "plot2", index |-> "plot3"]
ImageOf == [land |-> "plot1_land_prices.png", crop |-> "plot2_crop_prices.png",
            index |-> "plot3_price_index.png"]
NoDataOf == [land |-> "no data 1", crop |-> "no data 2", index |-> "no data 3"]
SelectOf == [land |-> "select state", crop |-> "select crop", index |-> "select"]

\* C4 as stated: with one source unavailable, a run of either program shows
\* a message and does not crash, and the charts of the other two datasets
\* are still produced.
C4_OnlyAffectedHalted ==
  \A s \in Sources :
    Unavailable = {s} =>
      /\ ui.status # "none" =>
           /\ ui.status = "returned"
           /\ ui.messages # {}
           /\ \A t \in Sources \ {s} :
                \/ PlotOf[t] \in ui.charts
                \/ NoDataOf[t] \in ui.messages
                \/ SelectOf[t] \in ui.messages
      /\ script.status # "none" =>
           /\ script.status = "returned"
           /\ \A t \in Sources \ {s} : ImageOf[t] \in script.saved

\* Is the first file that cannot be read a missing one.
FirstIsMissing ==
  \E s \in Unavailable :
    /\ files[s] = "missing"
    /\ s = "crop" => files["land"] = "ok"
    /\ s = "index" => files["land"] = "ok" /\ files["crop"] = "ok"

\* C4 as amended: with a source unavailable no chart of any dataset is
\* produced by either program.  The dashboard shows its error message and
\* the run ends normally when the first file it cannot read is missing; it
\* ends with the uncaught exception when that file cannot be parsed.  The
\* one-shot script always ends with the uncaught exception.
C4_AllHalted ==
  Unavailable # {} =>
    /\ ui.status # "none" =>
         /\ ui.charts = {}
         /\ ui.assigned = {}
         /\ IF FirstIsMissing
            THEN /\ ui.status = "returned"
                 /\ "Unable to load data files" \in ui.messages
            ELSE /\ ui.status = "raised"
                 /\ ui.exc = "ParserError"
    /\ script.status # "none" =>
         /\ script.status = "raised"
         /\ script.exc \in {"FileNotFoundError", "ParserError"}
         /\ script.saved = {}

C4_Witness ==
  /\ files = [land |-> "ok", crop |-> "missing", index |-> "ok"]
  /\ ui.status = "returned"
  /\ script.status = "raised"

EmptyPlot(name, data) == name \in ui.assigned /\ ~data.none /\ Empty(data)

\* C8: when the table computed for a plot is empty, the dashboard run ends
\* normally, shows the 'no data' warning for that plot and no chart of it,
\* and the combined view and the summary metrics leave that dataset out.
C8_EmptyTableWarning ==
  /\ EmptyPlot("plot1", ui.plot1_data) =>
       /\ ui.status = "returned"
       /\ "no data 1" \in ui.messages
       /\ ui.charts \cap {"plot1", "land"} = {}
       /\ ui.traces \cap available_states = {}
       /\ "plot1" \notin ui.metrics
  /\ EmptyPlot("plot2", ui.plot2_data) =>
       /\ ui.status = "returned"
       /\ "no data 2" \in ui.messages
       /\ "plot2" \notin ui.charts
       /\ ui.traces \cap available_crops = {}
       /\ "plot2" \notin ui.metrics
  /\ EmptyPlot("plot3", ui.plot3_data) =>
       /\ ui.status = "returned"
       /\ "no data 3" \in ui.messages
       /\ "plot3" \notin ui.charts
       /\ "index" \notin ui.traces
       /\ "plot3" \notin ui.metrics

C8_Witness ==
  /\ EmptyPlot("plot1", ui.plot1_data)
  /\ "combined" \in ui.charts
  /\ "plot2" \in ui.charts

\* C10 as stated: each source file is read at most once over the runs of
\* the dashboard.
C10_ReadOnce == \A s \in Sources : reads[s] <= 1

LoadReturned == ui.status # "none" /\ ui.exc # "ParserError"

\* C10 as amended: once a call of load_data has returned (the tables or the
\* 'no data' result) the value is cached: every later run gets that value
\* without reading a file and the cached value never changes.  A call that
\* ends with an uncaught exception caches nothing and the next run reads
\* again.
C10_CachedOnce ==
  /\ [](LoadReturned =>
          /\ cache.present
          /\ cropland_df = cache.value.land
          /\ crop_prices_df = cache.value.crop
          /\ price_index_df = cache.value.index)
  /\ [][cache.present => (cache' = cache /\ reads' = reads)]_vars
  /\ [][(~cache.present /\ reads' # reads) =>
          (reads'["land"] = reads["land"] + 1
             /\ (cache'.present \/ ui'.exc = "ParserError"))]_vars

C10_Witness ==
  /\ ui.cacheHit
  /\ cache.present
  /\ ui.status = "returned"
  /\ reads["land"] = 1

====
